---- MODULE Spec2Model ----
(***************************************************************************)
(* Model of navr: the shortcut store (AppConfig), its persistence, the     *)
(* merge policy, the path resolver of the jump and open commands, the      *)
(* shell integration and two invocations racing on the file.               *)
(*                                                                         *)
(* Strings that the code inspects character by character (aliases, jump    *)
(* targets) are sequences of Unicode code points.  Strings the code only   *)
(* stores, copies and compares as a whole (stored paths, file-manager      *)
(* names) are TLA+ strings.  An Option<T> is the set {} (None) or {v}      *)
(* (Some(v)).  A HashMap is a function; its iteration order is the         *)
(* variable order, re-chosen whenever the map is rebuilt or modified.      *)
(* Writing the configuration file is assumed to succeed (the configuration *)
(* directory is writable).                                                 *)
(***************************************************************************)
EXTENDS Integers, Sequences, FiniteSets, TLC

VARIABLES
    config,   \* the AppConfig of the running invocation
    order,    \* iteration order of config.shortcuts
    disk,     \* the configuration files: default location and --config PATH
    sel,      \* which file the invocation was loaded from
    pc,       \* "run": a document is loaded; "exit": the invocation failed
    fs,       \* what exists under each name in the working directory
    other,    \* the document handed to merge / read by import
    last,     \* the last operation, its arguments and its result
    procs     \* concurrent invocations: each one's position and document

vars == <<config, order, disk, sel, pc, fs, other, last, procs>>

(***************************************************************************)
(* Bounds                                                                  *)
(***************************************************************************)
\* largest number of entries the shortcuts map is allowed to grow to
MaxShortcuts == 2
\* how many of the raw path arguments of RawPathSeq are tried
NumRaw == 4
\* largest number of directories the modelled filesystem is allowed to hold
MaxDirs == 3

(***************************************************************************)
(* Strings                                                                 *)
(***************************************************************************)
\* aliases that are stored: "ab", "Ab", "É" (U+00C9)
StoreNames == { <<97, 98>>, <<65, 98>>, <<201>> }

\* names that are looked up: the above and "AB", "é" (U+00E9), "b", "abc"
LookupNames == StoreNames \cup { <<65, 66>>, <<233>>, <<98>>, <<97, 98, 99>> }

\* u8::to_ascii_lowercase, applied by eq_ignore_ascii_case to each byte;
\* the UTF-8 bytes of a code point above 127 are all above 127 and are left
\* alone, so on code points only A..Z change
to_ascii_lowercase(c) == IF c \in 65..90 THEN c + 32 ELSE c

eq_ignore_ascii_case(s, t) ==
    /\ Len(s) = Len(t)
    /\ \A i \in 1..Len(s) : to_ascii_lowercase(s[i]) = to_ascii_lowercase(t[i])

\* char::to_lowercase on the Basic Latin and Latin-1 blocks
char_to_lowercase(c) ==
    IF c \in 65..90 \/ (c \in 192..222 /\ c # 215) THEN c + 32 ELSE c

to_lowercase(s) == [i \in 1..Len(s) |-> char_to_lowercase(s[i])]

\* does pat start at position i of s
MatchesAt(s, pat, i) ==
    /\ i + Len(pat) - 1 <= Len(s)
    /\ \A j \in 1..Len(pat) : s[i + j - 1] = pat[j]

\* str::contains with a string pattern
contains(s, pat) == \E i \in 1..(Len(s) + 1) : MatchesAt(s, pat, i)

(***************************************************************************)
(* Options and maps                                                        *)
(***************************************************************************)
None == {}

Some(v) == {v}

EmptyMap == [k \in {} |-> ""]

\* the sequences that list every element of S once
Perms(S) ==
    { s \in [1..Cardinality(S) -> S] :
        \A i, j \in 1..Cardinality(S) : s[i] = s[j] => i = j }

\* HashMap::insert
MapInsert(m, k, v) == [x \in (DOMAIN m) \cup {k} |-> IF x = k THEN v ELSE m[x]]

\* HashMap::remove
MapRemove(m, k) == [x \in (DOMAIN m) \ {k} |-> m[x]]

\* HashMap::get
MapGet(m, k) == IF k \in DOMAIN m THEN Some(m[k]) ELSE None

(***************************************************************************)
(* Paths given to set_shortcut                                             *)
(***************************************************************************)
\* "/w": an existing directory; "/n": nothing there; "/l": a symbolic link
\* to /w; "$U/w": refers to an undefined environment variable; "~/w": the
\* home directory is "/", so this is /w written as "//w"
RawPathSeq == << "/w", "/n", "$U/w", "/l", "~/w" >>

RawPaths == { RawPathSeq[i] : i \in 1..(IF NumRaw < 5 THEN NumRaw ELSE 5) }

\* shellexpand::full: Some(expanded) or None when a variable is undefined
shellexpand_full(p) ==
    CASE p = "$U/w" -> None
      [] p = "~/w"  -> Some("//w")
      [] OTHER      -> Some(p)

\* std::fs::canonicalize: Some(resolved) or None when the path does not exist
canonicalize(p) ==
    CASE p = "/w" -> Some("/w")
      [] p = "/l" -> Some("/w")
      [] p = "//w" -> Some("/w")
      [] OTHER    -> None

(***************************************************************************)
(* The configuration document                                              *)
(***************************************************************************)
default_true == TRUE

default_false == FALSE

\* #[derive(Default)] on BehaviorConfig: every bool is bool::default()
BehaviorDefault ==
    [ confirm_overwrite |-> FALSE, create_missing |-> FALSE,
      follow_symlinks |-> FALSE, case_sensitive |-> FALSE,
      default_to_home |-> FALSE ]

\* #[derive(Default)] on ShellConfig: bool::default() and usize::default()
ShellDefault ==
    [ enabled |-> FALSE, hook_cd |-> FALSE, track_history |-> FALSE,
      max_history |-> 0 ]

\* impl Default for AppConfig
AppConfigDefault ==
    [ default_file_manager |-> None,
      shortcuts |-> EmptyMap,
      shell |-> ShellDefault,
      behavior |-> BehaviorDefault,
      file_managers |-> EmptyMap ]

\* the keys of a HashMap in the order iteration yields them
IsOrderOf(ord, m) == ord \in Perms(DOMAIN m)

(***************************************************************************)
(* Files: what serialization writes and what parsing reads back            *)
(***************************************************************************)
\* A file is [fmt, brace, doc]: fmt is "toml", "json", "bad" (not parseable)
\* or "none" (no such file); brace tells whether the first non-blank character
\* is '{'; doc maps the keys written in the file to their values.  In TOML a
\* key holds a value or is missing; in JSON the value of
\* default_file_manager is an Option (null or a string).
EmptyDoc == [k \in {} |-> ""]

NoFile == [fmt |-> "none", brace |-> FALSE, doc |-> EmptyDoc]

BadFile == [fmt |-> "bad", brace |-> FALSE, doc |-> EmptyDoc]

\* toml::to_string_pretty(self): a None field is left out, every other field
\* of the struct is written
toml_to_string(cfg) ==
    [ fmt |-> "toml", brace |-> FALSE,
      doc |->
        [ k \in {"shortcuts", "shell", "behavior", "file_managers"} \cup
                (IF cfg.default_file_manager = None
                 THEN {} ELSE {"default_file_manager"}) |->
            CASE k = "shortcuts" -> cfg.shortcuts
              [] k = "shell" -> cfg.shell
              [] k = "behavior" -> cfg.behavior
              [] k = "file_managers" -> cfg.file_managers
              [] k = "default_file_manager" ->
                    CHOOSE v \in cfg.default_file_manager : TRUE ] ]

\* serde_json::to_string_pretty(self): None is written as null
to_json(cfg) ==
    [ fmt |-> "json", brace |-> TRUE,
      doc |->
        [ k \in {"shortcuts", "shell", "behavior", "file_managers",
                 "default_file_manager"} |->
            CASE k = "shortcuts" -> cfg.shortcuts
              [] k = "shell" -> cfg.shell
              [] k = "behavior" -> cfg.behavior
              [] k = "file_managers" -> cfg.file_managers
              [] k = "default_file_manager" -> cfg.default_file_manager ] ]

\* a field that takes its default whatever the file holds
Field_IgnoresFile(tbl, k, dflt) == dflt

\* a field with #[serde(default = "...")]: the value in the file, or what
\* the default function returns
Field(tbl, k, dflt) == IF k \in DOMAIN tbl THEN tbl[k] ELSE dflt

default_max_history == 1000

\* Deserialize for ShellConfig: a missing key takes its default function
ShellFromDoc(tbl) ==
    [ enabled |-> Field(tbl, "enabled", default_true),
      hook_cd |-> Field(tbl, "hook_cd", default_true),
      track_history |-> Field(tbl, "track_history", default_true),
      max_history |-> Field(tbl, "max_history", default_max_history) ]

\* Deserialize for BehaviorConfig: a missing key takes its default function
BehaviorFromDoc(tbl) ==
    [ confirm_overwrite |-> Field(tbl, "confirm_overwrite", default_true),
      create_missing |-> Field(tbl, "create_missing", default_false),
      follow_symlinks |-> Field(tbl, "follow_symlinks", default_true),
      case_sensitive |-> Field(tbl, "case_sensitive", default_false),
      default_to_home |-> Field(tbl, "default_to_home", default_true) ]

\* Deserialize for AppConfig: #[serde(default)] on a missing key gives
\* Default::default() of the field's type
AppConfigFromDoc(f) ==
    [ default_file_manager |->
        IF "default_file_manager" \in DOMAIN f.doc
        THEN (IF f.fmt = "json" THEN f.doc["default_file_manager"]
              ELSE Some(f.doc["default_file_manager"]))
        ELSE None,
      shortcuts |->
        IF "shortcuts" \in DOMAIN f.doc THEN f.doc["shortcuts"] ELSE EmptyMap,
      shell |->
        IF "shell" \in DOMAIN f.doc
        THEN ShellFromDoc(f.doc["shell"]) ELSE ShellDefault,
      behavior |->
        IF "behavior" \in DOMAIN f.doc
        THEN BehaviorFromDoc(f.doc["behavior"]) ELSE BehaviorDefault,
      file_managers |->
        IF "file_managers" \in DOMAIN f.doc
        THEN f.doc["file_managers"] ELSE EmptyMap ]

\* toml::from_str::<AppConfig>: None on a parse error
toml_from_str(f) == IF f.fmt = "toml" THEN Some(AppConfigFromDoc(f)) ELSE None

\* AppConfig::from_json: None on a parse error
from_json(f) == IF f.fmt = "json" THEN Some(AppConfigFromDoc(f)) ELSE None

\* AppConfig::load_from_path: None when the file cannot be read or parsed
load_from_path(f) == IF f.fmt = "none" THEN None ELSE toml_from_str(f)

\* AppConfig::save: the document always goes to config_path(), the default
\* location, whichever file the invocation was loaded from
save(cfg, d) == [d EXCEPT !.default = toml_to_string(cfg)]

\* the file an invocation with configuration-file selection s reads
SelectedFile(d, s) == IF s = "path" THEN d.alt ELSE d.default

(***************************************************************************)
(* The shortcut store                                                      *)
(***************************************************************************)
\* set_shortcut storing the expanded path without canonicalizing it
set_shortcut_StoresExpanded(cfg, name, path) ==
    LET e == shellexpand_full(path) IN
    IF e = None
    THEN [err |-> TRUE, config |-> cfg, saved |-> FALSE]
    ELSE [ err |-> FALSE,
           config |-> [cfg EXCEPT !.shortcuts = MapInsert(@, name, CHOOSE x \in e : TRUE)],
           saved |-> TRUE ]

\* AppConfig::set_shortcut.  err: shellexpand failed and nothing was done
set_shortcut(cfg, name, path) ==
    LET e == shellexpand_full(path) IN
    IF e = None
    THEN [err |-> TRUE, config |-> cfg, saved |-> FALSE]
    ELSE LET expanded == CHOOSE x \in e : TRUE
             c == canonicalize(expanded)
             canonical == IF c = None THEN expanded ELSE CHOOSE x \in c : TRUE
         IN [ err |-> FALSE,
              config |-> [cfg EXCEPT !.shortcuts = MapInsert(@, name, canonical)],
              saved |-> TRUE ]

\* remove_shortcut saving whether or not an entry was removed
remove_shortcut_AlwaysSaves(cfg, name) ==
    [ ret |-> MapGet(cfg.shortcuts, name) # None,
      config |-> [cfg EXCEPT !.shortcuts = MapRemove(@, name)],
      saved |-> TRUE ]

\* AppConfig::remove_shortcut
remove_shortcut(cfg, name) ==
    LET removed == MapGet(cfg.shortcuts, name) # None IN
    [ ret |-> removed,
      config |-> [cfg EXCEPT !.shortcuts = MapRemove(@, name)],
      saved |-> removed ]

\* get_shortcut looking the name up exactly under either case policy
get_shortcut_AlwaysExact(cfg, ord, name) == MapGet(cfg.shortcuts, name)

\* get_shortcut ignoring ASCII case under either case policy
get_shortcut_NeverExact(cfg, ord, name) ==
    LET hits == { i \in 1..Len(ord) : eq_ignore_ascii_case(ord[i], name) }
    IN IF hits = {} THEN None
       ELSE Some(cfg.shortcuts[ord[CHOOSE i \in hits : \A j \in hits : i <= j]])

\* AppConfig::get_shortcut: exact lookup, or the first key in iteration
\* order that matches ignoring ASCII case
get_shortcut(cfg, ord, name) ==
    IF cfg.behavior.case_sensitive
    THEN MapGet(cfg.shortcuts, name)
    ELSE LET hits == { i \in 1..Len(ord) : eq_ignore_ascii_case(ord[i], name) }
         IN IF hits = {} THEN None
            ELSE Some(cfg.shortcuts[ord[CHOOSE i \in hits : \A j \in hits : i <= j]])

\* the iteration orders a map can have after an insert: an overwritten
\* entry stays in place, a new entry may land anywhere and may make the
\* table grow and rehash
OrdersAfterInsert(ord, m, k) == IF k \in DOMAIN m THEN {ord} ELSE Perms((DOMAIN m) \cup {k})

\* the iteration order after a remove: the other entries are not moved
OrderAfterRemove(ord, k) == SelectSeq(ord, LAMBDA x : x # k)

(***************************************************************************)
(* Operation records                                                       *)
(***************************************************************************)
NoName == << >>

\* op: the operation; name, arg: its arguments; ret: the Option or bool it
\* returned; err: the error it failed with ("" when it succeeded); wrote:
\* whether it called save; matches: the sequence fuzzy_find_shortcuts
\* returned; out: the path a resolver produced; fsread: whether the resolver
\* looked at the filesystem; value: the value string given to set_value
Op(op, name, arg, ret, err, wrote) ==
    [ op |-> op, name |-> name, arg |-> arg, ret |-> ret, err |-> err,
      wrote |-> wrote, matches |-> << >>, out |-> None, fsread |-> FALSE,
      value |-> "" ]

Bool(b) == IF b THEN {"true"} ELSE {"false"}

\* no concurrent invocations
NoProcs == << >>

(***************************************************************************)
(* Actions of the store                                                    *)
(***************************************************************************)
SetShortcut(name, path) ==
    /\ pc = "run"
    /\ name \in DOMAIN config.shortcuts
          \/ Cardinality(DOMAIN config.shortcuts) < MaxShortcuts
    /\ LET r == set_shortcut(config, name, path) IN
         /\ config' = r.config
         /\ order' \in (IF r.err THEN {order}
                        ELSE OrdersAfterInsert(order, config.shortcuts, name))
         /\ disk' = IF r.saved THEN save(r.config, disk) ELSE disk
         /\ last' = Op("set_shortcut", name, path,
                       IF r.err THEN None ELSE MapGet(r.config.shortcuts, name),
                       IF r.err THEN "ExpansionFailed" ELSE "", r.saved)
    /\ UNCHANGED <<sel, pc, fs, other, procs>>

RemoveShortcut(name) ==
    /\ pc = "run"
    /\ LET r == remove_shortcut(config, name) IN
         /\ config' = r.config
         /\ order' = OrderAfterRemove(order, name)
         /\ disk' = IF r.saved THEN save(r.config, disk) ELSE disk
         /\ last' = Op("remove_shortcut", name, "", Bool(r.ret), "", r.saved)
    /\ UNCHANGED <<sel, pc, fs, other, procs>>

GetShortcut(name) ==
    /\ pc = "run"
    /\ last' = Op("get_shortcut", name, "", get_shortcut(config, order, name),
                  "", FALSE)
    /\ UNCHANGED <<config, order, disk, sel, pc, fs, other, procs>>

(***************************************************************************)
(* get_value / set_value                                                   *)
(***************************************************************************)
\* <bool as FromStr>::from_str
ParseBool(v) ==
    CASE v = "true" -> Some(TRUE)
      [] v = "false" -> Some(FALSE)
      [] OTHER -> None

\* <usize as FromStr>::from_str on the values tried: digits, with an
\* optional '+' in front; leading zeros are allowed
ParseUsize(v) ==
    CASE v = "0" -> Some(0)
      [] v = "50" -> Some(50)
      [] v = "+50" -> Some(50)
      [] v = "050" -> Some(50)
      [] v = "1000" -> Some(1000)
      [] OTHER -> None

\* bool::to_string
BoolToString(b) == IF b THEN "true" ELSE "false"

\* usize::to_string on the values that occur
UsizeToString(n) ==
    CASE n = 0 -> "0"
      [] n = 50 -> "50"
      [] n = 1000 -> "1000"

ShellBoolKeys ==
    [ k \in {"shell.enabled", "shell.hook_cd", "shell.track_history"} |->
        CASE k = "shell.enabled" -> "enabled"
          [] k = "shell.hook_cd" -> "hook_cd"
          [] k = "shell.track_history" -> "track_history" ]

BehaviorKeys ==
    [ k \in {"behavior.confirm_overwrite", "behavior.create_missing",
             "behavior.follow_symlinks", "behavior.case_sensitive",
             "behavior.default_to_home"} |->
        CASE k = "behavior.confirm_overwrite" -> "confirm_overwrite"
          [] k = "behavior.create_missing" -> "create_missing"
          [] k = "behavior.follow_symlinks" -> "follow_symlinks"
          [] k = "behavior.case_sensitive" -> "case_sensitive"
          [] k = "behavior.default_to_home" -> "default_to_home" ]

\* set_value storing the value of every behavior key in create_missing
set_value_WritesCreateMissing(cfg, key, value) ==
    LET fail(e) == [err |-> e, config |-> cfg, saved |-> FALSE]
        done(c) == [err |-> "", config |-> c, saved |-> TRUE]
        b == ParseBool(value)
        n == ParseUsize(value)
    IN CASE key = "default_file_manager" ->
              done([cfg EXCEPT !.default_file_manager = Some(value)])
         [] key \in DOMAIN ShellBoolKeys ->
              IF b = None THEN fail("ParseError")
              ELSE done([cfg EXCEPT !.shell[ShellBoolKeys[key]] =
                                        CHOOSE x \in b : TRUE])
         [] key = "shell.max_history" ->
              IF n = None THEN fail("ParseError")
              ELSE done([cfg EXCEPT !.shell.max_history = CHOOSE x \in n : TRUE])
         [] key \in DOMAIN BehaviorKeys ->
              IF b = None THEN fail("ParseError")
              ELSE done([cfg EXCEPT !.behavior.create_missing =
                                        CHOOSE x \in b : TRUE])
         [] OTHER -> fail("UnknownKey")

\* AppConfig::set_value.  err: "" or the error; the document is saved only
\* when the match arm succeeded
set_value(cfg, key, value) ==
    LET fail(e) == [err |-> e, config |-> cfg, saved |-> FALSE]
        done(c) == [err |-> "", config |-> c, saved |-> TRUE]
        b == ParseBool(value)
        n == ParseUsize(value)
    IN CASE key = "default_file_manager" ->
              done([cfg EXCEPT !.default_file_manager = Some(value)])
         [] key \in DOMAIN ShellBoolKeys ->
              IF b = None THEN fail("ParseError")
              ELSE done([cfg EXCEPT !.shell[ShellBoolKeys[key]] =
                                        CHOOSE x \in b : TRUE])
         [] key = "shell.max_history" ->
              IF n = None THEN fail("ParseError")
              ELSE done([cfg EXCEPT !.shell.max_history = CHOOSE x \in n : TRUE])
         [] key \in DOMAIN BehaviorKeys ->
              IF b = None THEN fail("ParseError")
              ELSE done([cfg EXCEPT !.behavior[BehaviorKeys[key]] =
                                        CHOOSE x \in b : TRUE])
         [] OTHER -> fail("UnknownKey")

\* get_value without the arm for shell.max_history
get_value_NoMaxHistory(cfg, key) ==
    CASE key = "default_file_manager" ->
              Some(IF cfg.default_file_manager = None THEN ""
                   ELSE CHOOSE x \in cfg.default_file_manager : TRUE)
      [] key \in DOMAIN ShellBoolKeys ->
              Some(BoolToString(cfg.shell[ShellBoolKeys[key]]))
      [] key \in DOMAIN BehaviorKeys ->
              Some(BoolToString(cfg.behavior[BehaviorKeys[key]]))
      [] OTHER -> None

\* AppConfig::get_value: Some(string) or None for an unknown key
get_value(cfg, key) ==
    CASE key = "default_file_manager" ->
              Some(IF cfg.default_file_manager = None THEN ""
                   ELSE CHOOSE x \in cfg.default_file_manager : TRUE)
      [] key \in DOMAIN ShellBoolKeys ->
              Some(BoolToString(cfg.shell[ShellBoolKeys[key]]))
      [] key = "shell.max_history" -> Some(UsizeToString(cfg.shell.max_history))
      [] key \in DOMAIN BehaviorKeys ->
              Some(BoolToString(cfg.behavior[BehaviorKeys[key]]))
      [] OTHER -> None

\* the (key, value) pairs given to `config set`
SetValueInputs ==
    { <<"default_file_manager", "">>, <<"default_file_manager", "nautilus">>,
      <<"behavior.case_sensitive", "true">>,
      <<"behavior.case_sensitive", "false">>,
      <<"behavior.case_sensitive", "yes">>,
      <<"bogus.key", "x">> }

SetValue(key, value) ==
    /\ pc = "run"
    /\ LET r == set_value(config, key, value) IN
         /\ config' = r.config
         /\ disk' = IF r.saved THEN save(r.config, disk) ELSE disk
         /\ last' = Op("set_value", NoName, key, None, r.err, r.saved)
    /\ UNCHANGED <<order, sel, pc, fs, other, procs>>

\* ConfigCommand::set_file_manager
set_file_manager(cfg, manager) ==
    [cfg EXCEPT !.default_file_manager =
                    IF manager = "auto" THEN None ELSE Some(manager)]

SetFileManager(manager) ==
    /\ pc = "run"
    /\ config' = set_file_manager(config, manager)
    /\ disk' = save(config', disk)
    /\ last' = Op("set_file_manager", NoName, manager, None, "", TRUE)
    /\ UNCHANGED <<order, sel, pc, fs, other, procs>>

(***************************************************************************)
(* merge and import                                                        *)
(***************************************************************************)
\* an insert that overwrites an entry already there
or_insert_Overwrites(m, k, v) == MapInsert(m, k, v)

\* self.entry(k).or_insert(v)
or_insert(m, k, v) == IF k \in DOMAIN m THEN m ELSE MapInsert(m, k, v)

\* for (k, v) in from { into.entry(k).or_insert(v); } over the keys left
RECURSIVE MergeEntries(_, _, _)
MergeEntries(into, from, keys) ==
    IF keys = {} THEN into
    ELSE LET k == CHOOSE x \in keys : TRUE
         IN MergeEntries(or_insert(into, k, from[k]), from, keys \ {k})

\* merge taking other's default_file_manager only when self has none
merge_KeepsOwnManager(cfg, oth) ==
    [ cfg EXCEPT
        !.shortcuts = MergeEntries(@, oth.shortcuts, DOMAIN oth.shortcuts),
        !.file_managers =
            MergeEntries(@, oth.file_managers, DOMAIN oth.file_managers),
        !.default_file_manager =
            IF @ = None THEN oth.default_file_manager ELSE @ ]

\* AppConfig::merge
merge(cfg, oth) ==
    [ cfg EXCEPT
        !.shortcuts = MergeEntries(@, oth.shortcuts, DOMAIN oth.shortcuts),
        !.file_managers =
            MergeEntries(@, oth.file_managers, DOMAIN oth.file_managers),
        !.default_file_manager =
            IF oth.default_file_manager # None
            THEN oth.default_file_manager ELSE @ ]

\* the iteration orders of the shortcuts after merge: nothing moves when no
\* key is new
OrdersAfterMerge(ord, m, new) ==
    IF DOMAIN new = DOMAIN m THEN {ord} ELSE Perms(DOMAIN new)

\* commands::import::execute up to the parsed document: [err, doc]
import_parse(input) ==
    LET fail(e) == [err |-> e, doc |-> None]
        parsed(d) == IF d = None THEN fail("ParseError")
                     ELSE [err |-> "", doc |-> d]
        extension == IF input.ext = "" THEN "toml" ELSE input.ext
    IN IF input.file.fmt = "none" THEN fail("NotFound")
       ELSE CASE extension = "json" -> parsed(from_json(input.file))
              [] extension = "toml" -> parsed(toml_from_str(input.file))
              [] extension \in {"yaml", "yml"} -> fail("YamlUnsupported")
              [] OTHER -> IF input.file.brace
                          THEN parsed(from_json(input.file))
                          ELSE parsed(toml_from_str(input.file))

\* import keeping the default_file_manager the document had when it replaces
\* the document
import_execute_KeepsManager(cfg, input, mrg) ==
    LET p == import_parse(input) IN
    IF p.err # "" THEN [err |-> p.err, config |-> cfg, saved |-> FALSE]
    ELSE LET imported_config == CHOOSE d \in p.doc : TRUE
         IN [ err |-> "",
              config |-> IF mrg THEN merge(cfg, imported_config)
                         ELSE [imported_config EXCEPT
                                 !.default_file_manager = cfg.default_file_manager],
              saved |-> TRUE ]

\* commands::import::execute: [err, config, saved]
import_execute(cfg, input, mrg) ==
    LET p == import_parse(input) IN
    IF p.err # "" THEN [err |-> p.err, config |-> cfg, saved |-> FALSE]
    ELSE LET imported_config == CHOOSE d \in p.doc : TRUE
         IN [ err |-> "",
              config |-> IF mrg THEN merge(cfg, imported_config)
                         ELSE imported_config,
              saved |-> TRUE ]

\* the files given to import
ImportTomlFile ==
    [ fmt |-> "toml", brace |-> FALSE,
      doc |-> [ shortcuts |-> (<<97, 98>> :> "/n") @@ (<<201>> :> "/n"),
                default_file_manager |-> "nautilus" ] ]

ImportJsonFile ==
    to_json([AppConfigDefault EXCEPT !.shortcuts = (<<65, 98>> :> "/n")])

ImportInputs ==
    { [ext |-> "toml", file |-> ImportTomlFile],
      [ext |-> "cfg", file |-> ImportJsonFile],
      [ext |-> "yaml", file |-> ImportTomlFile],
      [ext |-> "json", file |-> BadFile],
      [ext |-> "", file |-> NoFile] }

Import(input, mrg) ==
    /\ pc = "run"
    /\ LET r == import_execute(config, input, mrg) IN
         /\ Cardinality(DOMAIN r.config.shortcuts) <= MaxShortcuts
         /\ config' = r.config
         /\ order' \in (IF r.err # "" THEN {order}
                        ELSE IF mrg
                        THEN OrdersAfterMerge(order, config.shortcuts,
                                              r.config.shortcuts)
                        ELSE Perms(DOMAIN r.config.shortcuts))
         /\ disk' = IF r.saved THEN save(r.config, disk) ELSE disk
         /\ last' = Op(IF mrg THEN "import_merge" ELSE "import", NoName,
                       input.ext, None, r.err, r.saved)
    /\ UNCHANGED <<sel, pc, fs, other, procs>>

(***************************************************************************)
(* Starting an invocation                                                  *)
(***************************************************************************)
\* config::defaults::default_shortcuts where dirs::home_dir() is "/" and the
\* other well-known directories are not defined: "home", "~" and "h"
default_shortcuts ==
    [ n \in { <<104, 111, 109, 101>>, <<126>>, <<104>> } |-> "/" ]

\* config::defaults::create_default_config
create_default_config == [AppConfigDefault EXCEPT !.shortcuts = default_shortcuts]

\* load returning the defaults on the first run without writing them
load_NoBootstrapSave(d) ==
    IF d.default.fmt # "none"
    THEN [doc |-> load_from_path(d.default), disk |-> d]
    ELSE [doc |-> Some(AppConfigDefault), disk |-> d]

\* AppConfig::load: [doc, disk]; the first run writes the defaults
load(d) ==
    IF d.default.fmt # "none"
    THEN [doc |-> load_from_path(d.default), disk |-> d]
    ELSE [doc |-> Some(AppConfigDefault), disk |-> save(AppConfigDefault, d)]

\* run: `--config PATH` loads PATH, otherwise the default location is loaded
Load(s) ==
    /\ LET r == IF s = "path"
                THEN [doc |-> load_from_path(disk.alt), disk |-> disk]
                ELSE load(disk)
       IN /\ disk' = r.disk
          /\ sel' = s
          /\ IF r.doc = None
             THEN /\ pc' = "exit"
                  /\ last' = Op("load", NoName, s, None, "LoadFailed", FALSE)
                  /\ UNCHANGED <<config, order>>
             ELSE /\ pc' = "run"
                  /\ config' = CHOOSE d \in r.doc : TRUE
                  /\ order' \in Perms(DOMAIN config'.shortcuts)
                  /\ last' = Op("load", NoName, s, None, "",
                                r.disk # disk)
    /\ UNCHANGED <<fs, other, procs>>

\* Cli::parse on a command line clap does not accept (an unrecognized
\* subcommand): clap prints its message and exits, run goes no further
InvalidCommand ==
    /\ pc' = "exit"
    /\ last' = Op("parse", NoName, "invalid-command", None, "UsageError", FALSE)
    /\ UNCHANGED <<config, order, disk, sel, fs, other, procs>>

\* main exiting with status 0 whatever run returned
main_ExitsZero(err) ==
    IF err = "" THEN [code |-> 0, stderr |-> << >>]
    ELSE [code |-> 0, stderr |-> << "Error:" >>]

\* main: the exit status and the prefixes of the lines written to standard
\* error, given the error run returned ("" for Ok)
main(err) ==
    IF err = "" THEN [code |-> 0, stderr |-> << >>]
    ELSE [code |-> 1, stderr |-> << "Error:" >>]

\* how the invocation whose last operation is l ends: clap exits with status
\* 2 after its own "error:" message, everything else goes through main
exit_status(l) ==
    IF l.op = "parse" /\ l.err # ""
    THEN [code |-> 2, stderr |-> << "error:" >>]
    ELSE main(l.err)

(***************************************************************************)
(* The path resolver of jump and open                                      *)
(***************************************************************************)
\* dirs::home_dir(): "/"
HomeDir == <<47>>

\* the paths the filesystem is asked about
FsPaths == LookupNames \cup {HomeDir}

\* jump targets: the names looked up, "~" and "$U" (U is not set)
ResolveTargets == LookupNames \cup { <<126>>, <<36, 85>> }

\* shellexpand::full on a target: "~" is the home directory, an undefined
\* variable is an error, a string without '~' and '$' is returned as it is
shellexpand_target(t) ==
    CASE t = <<126>> -> Some(HomeDir)
      [] t = <<36, 85>> -> None
      [] OTHER -> Some(t)

\* a resolved path: a stored shortcut path, or the expanded target itself
StoredPath(p) == [src |-> "shortcut", stored |-> p, name |-> NoName]

DirectPath(n) == [src |-> "direct", stored |-> "", name |-> n]

SuggestionLimit == 5

\* the number of directories in the filesystem
NumDirs(f) == Cardinality({ n \in DOMAIN f : f[n] = "dir" })

\* Iterator::take
Take(seq, n) == SubSeq(seq, 1, IF Len(seq) < n THEN Len(seq) ELSE n)

\* fuzzy_find_shortcuts testing only whether the alias contains the target
fuzzy_find_shortcuts_OneWay(cfg, ord, target) ==
    LET target_lower == to_lowercase(target)
        keep == SelectSeq(ord, LAMBDA name :
                    contains(to_lowercase(name), target_lower))
    IN [i \in 1..Len(keep) |-> <<keep[i], cfg.shortcuts[keep[i]]>>]

\* JumpCommand::fuzzy_find_shortcuts: the entries, in iteration order, whose
\* lowercased alias contains the lowercased target or is contained in it
fuzzy_find_shortcuts(cfg, ord, target) ==
    LET target_lower == to_lowercase(target)
        keep == SelectSeq(ord, LAMBDA name :
                    \/ contains(to_lowercase(name), target_lower)
                    \/ contains(target_lower, to_lowercase(name)))
    IN [i \in 1..Len(keep) |-> <<keep[i], cfg.shortcuts[keep[i]]>>]

\* what a resolver returns: out is the path (None on failure), err the
\* error, fs the filesystem afterwards, fsread whether the filesystem was
\* looked at, shown the suggestions printed
Resolved(out, err, f, fsread, shown) ==
    [out |-> out, err |-> err, fs |-> f, fsread |-> fsread, shown |-> shown]

\* jump_to trying the target as a path before it tries it as a shortcut
jump_to_PathFirst(cfg, ord, f, target, mk_ok) ==
    LET sc == get_shortcut(cfg, ord, target)
        e == shellexpand_target(target)
    IN IF e # None /\ f[CHOOSE x \in e : TRUE] = "dir"
       THEN Resolved(Some(DirectPath(CHOOSE x \in e : TRUE)), "", f, TRUE, << >>)
       ELSE IF sc # None
       THEN Resolved(Some(StoredPath(CHOOSE p \in sc : TRUE)), "", f, TRUE, << >>)
       ELSE Resolved(None, "DirectoryNotFound", f, TRUE, << >>)

\* jump_to accepting whatever exists at the expanded path, a regular file too
jump_to_AcceptsFile(cfg, ord, f, target, mk_ok) ==
    LET sc == get_shortcut(cfg, ord, target)
        e == shellexpand_target(target)
    IN IF sc # None
       THEN Resolved(Some(StoredPath(CHOOSE p \in sc : TRUE)), "", f, FALSE, << >>)
       ELSE IF e = None
       THEN Resolved(None, "ExpansionFailed", f, FALSE, << >>)
       ELSE LET path == CHOOSE x \in e : TRUE IN
            IF f[path] # "none"
            THEN Resolved(Some(DirectPath(path)), "", f, TRUE, << >>)
            ELSE IF cfg.behavior.create_missing
            THEN IF mk_ok
                 THEN Resolved(Some(DirectPath(path)), "",
                               [f EXCEPT ![path] = "dir"], TRUE, << >>)
                 ELSE Resolved(None, "IOError", f, TRUE, << >>)
            ELSE Resolved(None, "DirectoryNotFound", f, TRUE,
                          Take(fuzzy_find_shortcuts(cfg, ord, target),
                               SuggestionLimit))

\* jump_to printing every fuzzy match, however many there are
jump_to_ShowsAllMatches(cfg, ord, f, target, mk_ok) ==
    LET sc == get_shortcut(cfg, ord, target)
        e == shellexpand_target(target)
    IN IF sc # None
       THEN Resolved(Some(StoredPath(CHOOSE p \in sc : TRUE)), "", f, FALSE, << >>)
       ELSE IF e = None
       THEN Resolved(None, "ExpansionFailed", f, FALSE, << >>)
       ELSE LET path == CHOOSE x \in e : TRUE IN
            IF f[path] # "none"
            THEN IF f[path] = "dir"
                 THEN Resolved(Some(DirectPath(path)), "", f, TRUE, << >>)
                 ELSE Resolved(None, "NotADirectory", f, TRUE, << >>)
            ELSE IF cfg.behavior.create_missing
            THEN IF mk_ok
                 THEN Resolved(Some(DirectPath(path)), "",
                               [f EXCEPT ![path] = "dir"], TRUE, << >>)
                 ELSE Resolved(None, "IOError", f, TRUE, << >>)
            ELSE Resolved(None, "DirectoryNotFound", f, TRUE,
                          fuzzy_find_shortcuts(cfg, ord, target))

\* JumpCommand::jump_to; mk_ok: whether create_dir_all succeeds
jump_to(cfg, ord, f, target, mk_ok) ==
    LET sc == get_shortcut(cfg, ord, target)
        e == shellexpand_target(target)
    IN IF sc # None
       THEN Resolved(Some(StoredPath(CHOOSE p \in sc : TRUE)), "", f, FALSE, << >>)
       ELSE IF e = None
       THEN Resolved(None, "ExpansionFailed", f, FALSE, << >>)
       ELSE LET path == CHOOSE x \in e : TRUE IN
            IF f[path] # "none"
            THEN IF f[path] = "dir"
                 THEN Resolved(Some(DirectPath(path)), "", f, TRUE, << >>)
                 ELSE Resolved(None, "NotADirectory", f, TRUE, << >>)
            ELSE IF cfg.behavior.create_missing
            THEN IF mk_ok
                 THEN Resolved(Some(DirectPath(path)), "",
                               [f EXCEPT ![path] = "dir"], TRUE, << >>)
                 ELSE Resolved(None, "IOError", f, TRUE, << >>)
            ELSE Resolved(None, "DirectoryNotFound", f, TRUE,
                          Take(fuzzy_find_shortcuts(cfg, ord, target),
                               SuggestionLimit))

\* resolve_path returning the missing path without creating the directory
resolve_path_SkipsCreate(cfg, ord, f, target, mk_ok) ==
    LET sc == get_shortcut(cfg, ord, target)
        e == shellexpand_target(target)
    IN IF sc # None
       THEN Resolved(Some(StoredPath(CHOOSE p \in sc : TRUE)), "", f, FALSE, << >>)
       ELSE IF e = None
       THEN Resolved(None, "ExpansionFailed", f, FALSE, << >>)
       ELSE LET path == CHOOSE x \in e : TRUE IN
            IF f[path] # "none"
            THEN Resolved(Some(DirectPath(path)), "", f, TRUE, << >>)
            ELSE IF cfg.behavior.create_missing
            THEN IF mk_ok
                 THEN Resolved(Some(DirectPath(path)), "", f, TRUE, << >>)
                 ELSE Resolved(None, "IOError", f, TRUE, << >>)
            ELSE Resolved(None, "PathNotFound", f, TRUE, << >>)

\* OpenCommand::resolve_path; mk_ok: whether create_dir_all succeeds
resolve_path(cfg, ord, f, target, mk_ok) ==
    LET sc == get_shortcut(cfg, ord, target)
        e == shellexpand_target(target)
    IN IF sc # None
       THEN Resolved(Some(StoredPath(CHOOSE p \in sc : TRUE)), "", f, FALSE, << >>)
       ELSE IF e = None
       THEN Resolved(None, "ExpansionFailed", f, FALSE, << >>)
       ELSE LET path == CHOOSE x \in e : TRUE IN
            IF f[path] # "none"
            THEN Resolved(Some(DirectPath(path)), "", f, TRUE, << >>)
            ELSE IF cfg.behavior.create_missing
            THEN IF mk_ok
                 THEN Resolved(Some(DirectPath(path)), "",
                               [f EXCEPT ![path] = "dir"], TRUE, << >>)
                 ELSE Resolved(None, "IOError", f, TRUE, << >>)
            ELSE Resolved(None, "PathNotFound", f, TRUE, << >>)

\* the operation record of a resolver call
ResolveOp(op, target, r) ==
    [ Op(op, target, "", None, r.err, FALSE) EXCEPT
        !.out = r.out, !.fsread = r.fsread, !.matches = r.shown ]

JumpTo(target, mk_ok) ==
    /\ pc = "run"
    /\ mk_ok \/ jump_to(config, order, fs, target, FALSE).err = "IOError"
    /\ LET r == jump_to(config, order, fs, target, mk_ok) IN
         /\ r.fs = fs \/ NumDirs(fs) < MaxDirs
         /\ fs' = r.fs
         /\ last' = ResolveOp("jump_to", target, r)
    /\ UNCHANGED <<config, order, disk, sel, pc, other, procs>>

ResolvePath(target, mk_ok) ==
    /\ pc = "run"
    /\ mk_ok \/ resolve_path(config, order, fs, target, FALSE).err = "IOError"
    /\ LET r == resolve_path(config, order, fs, target, mk_ok) IN
         /\ r.fs = fs \/ NumDirs(fs) < MaxDirs
         /\ fs' = r.fs
         /\ last' = ResolveOp("resolve_path", target, r)
    /\ UNCHANGED <<config, order, disk, sel, pc, other, procs>>

FuzzyFind(target) ==
    /\ pc = "run"
    /\ last' = [ Op("fuzzy_find_shortcuts", target, "", None, "", FALSE) EXCEPT
                   !.matches = fuzzy_find_shortcuts(config, order, target) ]
    /\ UNCHANGED <<config, order, disk, sel, pc, fs, other, procs>>

\* what dirs::home_dir() can return: no home directory is known, or "/"
HomeDirs == { None, Some(HomeDir) }

\* execute going to the home directory whatever default_to_home says
execute_AlwaysHome(cfg, home) ==
    IF home # None
    THEN [out |-> Some(DirectPath(CHOOSE h \in home : TRUE)), listed |-> FALSE]
    ELSE [out |-> None, listed |-> TRUE]

\* JumpCommand::execute with no target and no --list, --add, --remove; home:
\* what dirs::home_dir() returns.  out: the path given to output_path;
\* listed: whether list_shortcuts was called
execute(cfg, home) ==
    IF cfg.behavior.default_to_home /\ home # None
    THEN [out |-> Some(DirectPath(CHOOSE h \in home : TRUE)), listed |-> FALSE]
    ELSE [out |-> None, listed |-> TRUE]

Execute(home) ==
    /\ pc = "run"
    /\ LET r == execute(config, home) IN
         last' = [ Op("execute", NoName, IF home = None THEN "nohome" ELSE "home",
                      Bool(r.listed), "", FALSE) EXCEPT !.out = r.out ]
    /\ UNCHANGED <<config, order, disk, sel, pc, fs, other, procs>>

\* what env::current_dir() can return: the working directory /w, or None
\* when it cannot be determined
CurrentDirs == { Some("/w"), None }

\* the lines read_line can deliver at the overwrite prompt, as code points:
\* "y\n", "Y\n", " y \n", "y" and end of input, "n\n", "yes\n", "\n", ""
Answers ==
    { <<121, 10>>, <<89, 10>>, <<32, 121, 32, 10>>, <<121>>,
      <<110, 10>>, <<121, 101, 115, 10>>, <<10>>, << >> }

is_whitespace(c) == c \in {9, 10, 11, 12, 13, 32}

\* str::trim
RECURSIVE trim_start(_)
trim_start(s) ==
    IF s # << >> /\ is_whitespace(Head(s)) THEN trim_start(Tail(s)) ELSE s

RECURSIVE trim_end(_)
trim_end(s) ==
    IF s # << >> /\ is_whitespace(s[Len(s)])
    THEN trim_end(SubSeq(s, 1, Len(s) - 1)) ELSE s

trim(s) == trim_end(trim_start(s))

\* add_shortcut overwriting whatever is answered at the prompt
add_shortcut_IgnoresAnswer(cfg, name, cwd, input) ==
    LET prompted == name \in DOMAIN cfg.shortcuts /\ cfg.behavior.confirm_overwrite IN
    IF cwd = None
    THEN [err |-> "NoCurrentDir", config |-> cfg, saved |-> FALSE, path |-> "unprompted"]
    ELSE LET r == set_shortcut(cfg, name, CHOOSE d \in cwd : TRUE) IN
         [ err |-> IF r.err THEN "ExpansionFailed" ELSE "",
           config |-> r.config, saved |-> r.saved,
           path |-> IF prompted THEN "confirmed" ELSE "unprompted" ]

\* JumpCommand::add_shortcut; cwd: what env::current_dir() returns; input:
\* the line read at the overwrite prompt, if the prompt is shown.  path:
\* whether the prompt was shown and how it was answered
add_shortcut(cfg, name, cwd, input) ==
    LET prompted == name \in DOMAIN cfg.shortcuts /\ cfg.behavior.confirm_overwrite IN
    IF cwd = None
    THEN [err |-> "NoCurrentDir", config |-> cfg, saved |-> FALSE, path |-> "unprompted"]
    ELSE IF prompted /\ ~eq_ignore_ascii_case(trim(input), <<121>>)
    THEN [err |-> "", config |-> cfg, saved |-> FALSE, path |-> "declined"]
    ELSE LET r == set_shortcut(cfg, name, CHOOSE d \in cwd : TRUE) IN
         [ err |-> IF r.err THEN "ExpansionFailed" ELSE "",
           config |-> r.config, saved |-> r.saved,
           path |-> IF prompted THEN "confirmed" ELSE "unprompted" ]

\* jump --add NAME
AddShortcut(name, cwd, input) ==
    /\ pc = "run"
    /\ name \in DOMAIN config.shortcuts
          \/ Cardinality(DOMAIN config.shortcuts) < MaxShortcuts
    /\ LET r == add_shortcut(config, name, cwd, input) IN
         /\ config' = r.config
         /\ order' \in (IF r.saved
                        THEN OrdersAfterInsert(order, config.shortcuts, name)
                        ELSE {order})
         /\ disk' = IF r.saved THEN save(r.config, disk) ELSE disk
         /\ last' = Op("add_shortcut", name, r.path,
                       MapGet(r.config.shortcuts, name), r.err, r.saved)
    /\ UNCHANGED <<sel, pc, fs, other, procs>>

\* JumpCommand::output_path: the line printed for the shell wrapper
output_path(path) == [sentinel |-> "NAVR_JUMP", path |-> path]

(***************************************************************************)
(* The store and its persistence                                           *)
(***************************************************************************)
\* the file at --config PATH: hand-written, only a shortcuts table
AltTomlFile ==
    [ fmt |-> "toml", brace |-> FALSE,
      doc |-> [ shortcuts |-> (<<65, 98>> :> "/w") ] ]

AltFiles == { AltTomlFile }

\* the working directory: "ab" is a directory, "b" is a regular file; the
\* home directory exists
FsInit ==
    [ n \in FsPaths |->
        CASE n = <<97, 98>> -> "dir"
          [] n = <<98>> -> "file"
          [] n = HomeDir -> "dir"
          [] OTHER -> "none" ]

\* the names given to remove_shortcut: the stored aliases and "AB"
RemoveNames == StoreNames \cup { <<65, 66>> }

\* the file-manager arguments of `config set-file-manager`
ManagerInputs == {"auto", "nautilus"}

\* a fresh AppConfig::default() in memory and no configuration file yet
Init ==
    /\ config = AppConfigDefault
    /\ order = << >>
    /\ disk \in [default : {NoFile}, alt : AltFiles]
    /\ sel = "default"
    /\ pc = "run"
    /\ fs = FsInit
    /\ other = AppConfigDefault
    /\ last = Op("init", NoName, "", None, "", FALSE)
    /\ procs = NoProcs

Next ==
    \/ \E s \in {"default", "path"} : Load(s)
    \/ \E n \in StoreNames, p \in RawPaths : SetShortcut(n, p)
    \/ \E n \in RemoveNames : RemoveShortcut(n)
    \/ \E kv \in SetValueInputs : SetValue(kv[1], kv[2])
    \/ \E m \in ManagerInputs : SetFileManager(m)
    \/ \E i \in ImportInputs, m \in BOOLEAN : Import(i, m)
    \/ InvalidCommand

Spec == Init /\ [][Next]_vars

TypeOK ==
    /\ IsOrderOf(order, config.shortcuts)
    /\ DOMAIN config.shortcuts \subseteq StoreNames
    /\ pc \in {"run", "exit"}
    /\ sel \in {"default", "path"}

(***************************************************************************)
(* The resolver on its own: any stored shortcuts, any working directory    *)
(***************************************************************************)
StoredPaths == {"/w", "/n"}

\* the shortcut maps with at most n entries
ShortcutMaps(n) ==
    UNION { [D -> StoredPaths] :
              D \in { X \in SUBSET StoreNames : Cardinality(X) <= n } }

\* a document with more shortcuts than suggestions are shown: "a", "b",
\* "c", "bc", "abcd", "xabc", each of them contained in "abc" or containing
\* it, in one iteration order and in the reverse of it
ManyNames ==
    << <<97>>, <<98>>, <<99>>, <<98, 99>>, <<97, 98, 99, 100>>,
       <<120, 97, 98, 99>> >>

ManyShortcuts == [n \in { ManyNames[i] : i \in 1..Len(ManyNames) } |-> "/w"]

ManyOrders ==
    { ManyNames, [i \in 1..Len(ManyNames) |-> ManyNames[Len(ManyNames) + 1 - i]] }

InitResolve ==
    /\ \E m \in ShortcutMaps(MaxShortcuts) \cup {ManyShortcuts},
          cs, cm \in BOOLEAN :
          config = [AppConfigDefault EXCEPT
                      !.shortcuts = m,
                      !.behavior.case_sensitive = cs,
                      !.behavior.create_missing = cm]
    /\ order \in (IF config.shortcuts = ManyShortcuts THEN ManyOrders
                  ELSE Perms(DOMAIN config.shortcuts))
    /\ disk = [default |-> toml_to_string(config), alt |-> AltTomlFile]
    /\ sel = "default"
    /\ pc = "run"
    /\ fs = FsInit
    /\ other = AppConfigDefault
    /\ last = Op("init", NoName, "", None, "", FALSE)
    /\ procs = NoProcs

NextResolve ==
    \/ \E t \in ResolveTargets, ok \in BOOLEAN : JumpTo(t, ok)
    \/ \E t \in ResolveTargets, ok \in BOOLEAN : ResolvePath(t, ok)
    \/ \E t \in ResolveTargets : FuzzyFind(t)
    \/ \E n \in LookupNames : GetShortcut(n)

SpecResolve == InitResolve /\ [][NextResolve]_vars

(***************************************************************************)
(* jump without a target and jump --add: any stored shortcuts, either      *)
(* default_to_home, either confirm_overwrite                               *)
(***************************************************************************)
InitExecute ==
    /\ \E m \in ShortcutMaps(MaxShortcuts), dh \in BOOLEAN, co \in BOOLEAN :
          config = [AppConfigDefault EXCEPT
                      !.shortcuts = m, !.behavior.default_to_home = dh,
                      !.behavior.confirm_overwrite = co]
    /\ order \in Perms(DOMAIN config.shortcuts)
    /\ disk = [default |-> toml_to_string(config), alt |-> AltTomlFile]
    /\ sel = "default"
    /\ pc = "run"
    /\ fs = FsInit
    /\ other = AppConfigDefault
    /\ last = Op("init", NoName, "", None, "", FALSE)
    /\ procs = NoProcs

NextExecute ==
    \/ \E h \in HomeDirs : Execute(h)
    \/ \E n \in StoreNames, d \in CurrentDirs, a \in Answers : AddShortcut(n, d, a)

SpecExecute == InitExecute /\ [][NextExecute]_vars

(***************************************************************************)
(* merge on its own: any two documents                                     *)
(***************************************************************************)
MergeSelfs ==
    { [AppConfigDefault EXCEPT
          !.shortcuts = m, !.default_file_manager = d, !.file_managers = f] :
        m \in ShortcutMaps(MaxShortcuts),
        d \in {None, Some("thunar")},
        f \in {EmptyMap, ("linux" :> "thunar")} }

MergeOthers ==
    { [AppConfigDefault EXCEPT
          !.shortcuts = m, !.default_file_manager = d, !.file_managers = f] :
        m \in ShortcutMaps(MaxShortcuts),
        d \in {None, Some(""), Some("nautilus")},
        f \in {EmptyMap, ("linux" :> "dolphin"), ("macos" :> "open")} }

InitMerge ==
    /\ config \in MergeSelfs
    /\ order = CHOOSE o \in Perms(DOMAIN config.shortcuts) : TRUE
    /\ disk = [default |-> NoFile, alt |-> AltTomlFile]
    /\ sel = "default"
    /\ pc = "run"
    /\ fs = FsInit
    /\ other \in MergeOthers
    /\ last = Op("init", NoName, "", None, "", FALSE)
    /\ procs = NoProcs

\* config.merge(other), as test_config_merge calls it
Merge ==
    /\ pc = "run"
    /\ last.op = "init"
    /\ config' = merge(config, other)
    /\ order' \in OrdersAfterMerge(order, config.shortcuts, config'.shortcuts)
    /\ last' = Op("merge", NoName, "", None, "", FALSE)
    /\ UNCHANGED <<disk, sel, pc, fs, other, procs>>

NextMerge == Merge

SpecMerge == InitMerge /\ [][NextMerge]_vars

(***************************************************************************)
(* import on its own: any document, every extension with every file        *)
(***************************************************************************)
\* the inputs of import: the extension of the path, as to_lowercase leaves
\* it ("" when the path has none), and the file at the path
ImportExtensions == {"json", "toml", "yaml", "cfg", ""}

ImportFiles ==
    { [ext |-> e, file |-> f] :
        e \in ImportExtensions,
        f \in {ImportTomlFile, ImportJsonFile, BadFile, NoFile} }

InitImport ==
    /\ \E m \in ShortcutMaps(MaxShortcuts), d \in {None, Some("thunar")} :
          config = [AppConfigDefault EXCEPT
                      !.shortcuts = m, !.default_file_manager = d]
    /\ order \in Perms(DOMAIN config.shortcuts)
    /\ disk = [default |-> toml_to_string(config), alt |-> AltTomlFile]
    /\ sel = "default"
    /\ pc = "run"
    /\ fs = FsInit
    /\ other = AppConfigDefault
    /\ last = Op("init", NoName, "", None, "", FALSE)
    /\ procs = NoProcs

NextImport == \E i \in ImportFiles, m \in BOOLEAN : Import(i, m)

SpecImport == InitImport /\ [][NextImport]_vars

(***************************************************************************)
(* Shell integration: navr-shell cd and the generated cd wrapper           *)
(***************************************************************************)
\* text that is no path: what the wrapper hands to cd when the output of
\* navr jump is not the sentinel line alone
TextPath == [src |-> "text", stored |-> "", name |-> NoName]

\* cd PATH in the calling shell: Some(path) when the shell ends in that
\* directory, None when cd fails and the shell stays where it is
builtin_cd(f, p) ==
    CASE p.src = "direct" -> IF f[p.name] = "dir" THEN Some(p) ELSE None
      [] p.src = "shortcut" -> IF canonicalize(p.stored) # None THEN Some(p) ELSE None
      [] OTHER -> None

\* shell_integration::load_config: the shortcuts table of the file at the
\* default location, None when it cannot be read or parsed (a file written
\* by save has the two tables SimpleConfig requires)
load_config(d) ==
    LET c == load_from_path(d.default) IN
    IF c = None THEN None ELSE Some((CHOOSE x \in c : TRUE).shortcuts)

\* handle_cd: the path printed for the calling shell; args: the arguments
\* after "cd", home: what dirs::home_dir() returns
handle_cd(d, f, home, args) ==
    IF args = << >>
    THEN IF home # None THEN Some(DirectPath(CHOOSE h \in home : TRUE)) ELSE None
    ELSE LET target == args[1]
             shortcuts == load_config(d)
             table == IF shortcuts = None THEN EmptyMap
                      ELSE CHOOSE m \in shortcuts : TRUE
         IN IF f[target] = "dir"
            THEN Some(DirectPath(target))
            ELSE IF MapGet(table, target) # None
            THEN Some(StoredPath(table[target]))
            ELSE Some(DirectPath(target))

\* what navr jump writes to standard output, line by line
jump_stdout(r, f) ==
    (IF r.fs # f THEN << "Created directory" >> ELSE << >>)
    \o (IF r.shown # << >> THEN << "Did you mean" >> ELSE << >>)
    \o [i \in 1..Len(r.shown) |-> "suggestion"]
    \o (IF r.out # None THEN << "NAVR_JUMP" >> ELSE << >>)

\* the cd function of generate_cd_wrapper (bash, zsh, fish): the path handed
\* to builtin cd and the filesystem afterwards; target is not empty
cd_wrapper(cfg, ord, f, target, mk_ok) ==
    IF f[target] = "dir"
    THEN [arg |-> DirectPath(target), fs |-> f]
    ELSE LET r == jump_to(cfg, ord, f, target, mk_ok)
             stdout == jump_stdout(r, f)
         IN [ arg |-> IF stdout = << >> THEN DirectPath(target)
                      ELSE IF stdout[1] = "NAVR_JUMP" THEN CHOOSE p \in r.out : TRUE
                      ELSE TextPath,
              fs |-> r.fs ]

\* cd "$(navr-shell cd ARGS)"
HandleCd(home, args) ==
    /\ pc = "run"
    /\ LET printed == handle_cd(disk, fs, home, args) IN
         last' = [ Op("handle_cd", IF args = << >> THEN NoName ELSE args[1],
                      IF home = None THEN "nohome" ELSE "home", None, "", FALSE)
                   EXCEPT !.out = IF printed = None THEN None
                                  ELSE builtin_cd(fs, CHOOSE p \in printed : TRUE) ]
    /\ UNCHANGED <<config, order, disk, sel, pc, fs, other, procs>>

\* cd TARGET with the wrapper installed
CdWrapper(target, mk_ok) ==
    /\ pc = "run"
    /\ mk_ok \/ jump_to(config, order, fs, target, FALSE).err = "IOError"
    /\ LET r == cd_wrapper(config, order, fs, target, mk_ok) IN
         /\ r.fs = fs \/ NumDirs(fs) < MaxDirs
         /\ fs' = r.fs
         /\ last' = [ Op("cd_wrapper", target, "", None, "", FALSE)
                      EXCEPT !.out = builtin_cd(r.fs, r.arg) ]
    /\ UNCHANGED <<config, order, disk, sel, pc, other, procs>>

InitShell ==
    /\ \E m \in ShortcutMaps(MaxShortcuts), cs, cm \in BOOLEAN :
          config = [AppConfigDefault EXCEPT
                      !.shortcuts = m,
                      !.behavior.case_sensitive = cs,
                      !.behavior.create_missing = cm]
    /\ order \in Perms(DOMAIN config.shortcuts)
    /\ disk = [default |-> toml_to_string(config), alt |-> AltTomlFile]
    /\ sel = "default"
    /\ pc = "run"
    /\ fs = FsInit
    /\ other = AppConfigDefault
    /\ last = Op("init", NoName, "", None, "", FALSE)
    /\ procs = NoProcs

NextShell ==
    \/ \E h \in HomeDirs, a \in {<< >>} \cup { <<t>> : t \in LookupNames } : HandleCd(h, a)
    \/ \E t \in LookupNames, ok \in BOOLEAN : CdWrapper(t, ok)

SpecShell == InitShell /\ [][NextShell]_vars

(***************************************************************************)
(* Two invocations racing on the file at the default location: each loads  *)
(* it, changes one shortcut in its own document and saves.  Nothing locks  *)
(* the file, and save writes it in place with std::fs::write, which opens  *)
(* the file truncating it and then writes the text from offset 0.          *)
(***************************************************************************)
Invocations == {"A", "B"}

\* the aliases the racing invocations set and remove
RaceNames == { <<97, 98>>, <<65, 98>> }

\* the file right after it was opened with truncation: no text
EmptyFile == [fmt |-> "toml", brace |-> FALSE, doc |-> EmptyDoc]

\* the length of a file's text, in lines of equal length: every shortcut
\* entry tried is one line of the same number of bytes, the rest of a
\* document one block that is the same in all of them; "tail" counts the
\* lines left over from a longer text
FileSize(f) ==
    CASE f.fmt = "none" -> 0
      [] f.doc = EmptyDoc -> 0
      [] OTHER -> 1 + Cardinality(DOMAIN f.doc["shortcuts"])
                    + (IF "tail" \in DOMAIN f.doc THEN f.doc["tail"] ELSE 0)

\* write_all from offset 0 into the open file: the text written replaces
\* the first bytes of what is there, and what lies beyond its end stays.
\* fmt "mixed": the text written followed by the tail of a longer text
write_all(f, text) ==
    IF FileSize(text) >= FileSize(f) THEN text
    ELSE [ fmt |-> "mixed", brace |-> FALSE,
           doc |-> [ k \in (DOMAIN text.doc) \cup {"tail"} |->
                       IF k = "tail" THEN FileSize(f) - FileSize(text)
                       ELSE text.doc[k] ] ]

\* how many invocations have finished writing
WriteCount(ps) == Cardinality({ i \in DOMAIN ps : ps[i].nth > 0 })

\* AppConfig::load at the start of an invocation
RaceLoad(i) ==
    /\ procs[i].pc = "start"
    /\ LET r == load(disk) IN
         /\ disk' = r.disk
         /\ procs' = [procs EXCEPT ![i] =
                IF r.doc = None THEN [@ EXCEPT !.pc = "failed"]
                ELSE [@ EXCEPT !.pc = "loaded", !.doc = CHOOSE d \in r.doc : TRUE]]
         /\ last' = Op("load", NoName, i, None,
                       IF r.doc = None THEN "LoadFailed" ELSE "", r.disk # disk)
    /\ UNCHANGED <<config, order, sel, pc, fs, other>>

\* set_shortcut up to its call of save: the entry is put into the
\* invocation's own document
RaceSetShortcut(i, name, path) ==
    /\ procs[i].pc = "loaded"
    /\ name \in DOMAIN procs[i].doc.shortcuts
          \/ Cardinality(DOMAIN procs[i].doc.shortcuts) < MaxShortcuts
    /\ LET r == set_shortcut(procs[i].doc, name, path) IN
         /\ procs' = [procs EXCEPT ![i] =
                [@ EXCEPT !.pc = IF r.err THEN "failed" ELSE "mutated",
                          !.doc = r.config]]
         /\ last' = Op("set_shortcut", name, i, None,
                       IF r.err THEN "ExpansionFailed" ELSE "", FALSE)
    /\ UNCHANGED <<config, order, disk, sel, pc, fs, other>>

\* remove_shortcut up to its call of save; nothing is saved when there was
\* no such entry
RaceRemoveShortcut(i, name) ==
    /\ procs[i].pc = "loaded"
    /\ LET r == remove_shortcut(procs[i].doc, name) IN
         /\ procs' = [procs EXCEPT ![i] =
                [@ EXCEPT !.pc = IF r.saved THEN "mutated" ELSE "done",
                          !.doc = r.config]]
         /\ last' = Op("remove_shortcut", name, i, Bool(r.ret), "", FALSE)
    /\ UNCHANGED <<config, order, disk, sel, pc, fs, other>>

\* save, first half: std::fs::write opens the file, truncating it
RaceOpen(i) ==
    /\ procs[i].pc = "mutated"
    /\ disk' = [disk EXCEPT !.default = EmptyFile]
    /\ procs' = [procs EXCEPT ![i].pc = "opened"]
    /\ last' = Op("open_truncate", NoName, i, None, "", FALSE)
    /\ UNCHANGED <<config, order, sel, pc, fs, other>>

\* save, second half: the text of the document is written and save returns
RaceWrite(i) ==
    /\ procs[i].pc = "opened"
    /\ disk' = [disk EXCEPT !.default = write_all(@, toml_to_string(procs[i].doc))]
    /\ procs' = [procs EXCEPT ![i] = [@ EXCEPT !.pc = "done", !.nth = WriteCount(procs) + 1]]
    /\ last' = Op("write_all", NoName, i, None, "", TRUE)
    /\ UNCHANGED <<config, order, sel, pc, fs, other>>

InitRace ==
    /\ \E m \in ShortcutMaps(MaxShortcuts) :
          config = [AppConfigDefault EXCEPT !.shortcuts = m]
    /\ order \in Perms(DOMAIN config.shortcuts)
    /\ disk = [default |-> toml_to_string(config), alt |-> AltTomlFile]
    /\ sel = "default"
    /\ pc = "run"
    /\ fs = FsInit
    /\ other = AppConfigDefault
    /\ last = Op("start", NoName, "", None, "", FALSE)
    /\ procs = [i \in Invocations |-> [pc |-> "start", doc |-> AppConfigDefault, nth |-> 0]]

NextRace ==
    \/ \E i \in Invocations : RaceLoad(i)
    \/ \E i \in Invocations, n \in RaceNames : RaceSetShortcut(i, n, "/w")
    \/ \E i \in Invocations, n \in RaceNames : RaceRemoveShortcut(i, n)
    \/ \E i \in Invocations : RaceOpen(i)
    \/ \E i \in Invocations : RaceWrite(i)

SpecRace == InitRace /\ [][NextRace]_vars

(***************************************************************************)
(* Serialization and the key/value interface on their own: any document    *)
(***************************************************************************)
\* the flag settings of the documents tried: all false, the per-field
\* defaults, and one with the two flags set that are false by default
BehaviorSamples ==
    { BehaviorDefault, BehaviorFromDoc(EmptyDoc),
      [BehaviorDefault EXCEPT !.create_missing = TRUE, !.case_sensitive = TRUE] }

ShellSamples == { ShellDefault, ShellFromDoc(EmptyDoc) }

Docs ==
    { [ default_file_manager |-> d, shortcuts |-> m, shell |-> sh,
        behavior |-> b, file_managers |-> EmptyMap ] :
        d \in {None, Some(""), Some("nautilus")},
        m \in ShortcutMaps(MaxShortcuts),
        sh \in ShellSamples, b \in BehaviorSamples }

\* the keys and the value strings given to set_value
ValueKeys ==
    (DOMAIN ShellBoolKeys) \cup (DOMAIN BehaviorKeys) \cup
        {"default_file_manager", "shell.max_history", "bogus.key"}

ValueStrings == {"true", "false", "True", "50", "+50", "050", "", "nautilus"}

InitDoc ==
    /\ config \in Docs
    /\ order = CHOOSE o \in Perms(DOMAIN config.shortcuts) : TRUE
    /\ disk = [default |-> toml_to_string(config), alt |-> AltTomlFile]
    /\ sel = "default"
    /\ pc = "run"
    /\ fs = FsInit
    /\ other = AppConfigDefault
    /\ last = Op("init", NoName, "", None, "", FALSE)
    /\ procs = NoProcs

\* serialize the document and parse the text, in one of the two formats
round_trip(cfg, fmt) ==
    IF fmt = "json" THEN from_json(to_json(cfg))
    ELSE toml_from_str(toml_to_string(cfg))

\* test_config_serialization / test_json_serialization: other is what was
\* parsed
RoundTrip(fmt) ==
    /\ pc = "run"
    /\ last.op = "init"
    /\ LET r == round_trip(config, fmt) IN
         /\ other' = IF r = None THEN other ELSE CHOOSE x \in r : TRUE
         /\ last' = Op("round_trip", NoName, fmt, None,
                       IF r = None THEN "ParseError" ELSE "", FALSE)
    /\ UNCHANGED <<config, order, disk, sel, pc, fs, procs>>

\* test_set_and_get_value: set_value(key, value), then get_value(key) when
\* set_value succeeded
SetAndGet(key, value) ==
    /\ pc = "run"
    /\ last.op = "init"
    /\ LET r == set_value(config, key, value) IN
         /\ config' = r.config
         /\ disk' = IF r.saved THEN save(r.config, disk) ELSE disk
         /\ last' = [ Op("set_and_get", NoName, key,
                         IF r.err = "" THEN get_value(r.config, key) ELSE None,
                         r.err, r.saved) EXCEPT !.value = value ]
    /\ UNCHANGED <<order, sel, pc, fs, other, procs>>

NextDoc ==
    \/ \E fmt \in {"toml", "json"} : RoundTrip(fmt)
    \/ \E k \in ValueKeys, v \in ValueStrings : SetAndGet(k, v)

SpecDoc == InitDoc /\ [][NextDoc]_vars

(***************************************************************************)
(* Properties                                                              *)
(***************************************************************************)
\* no two keys of the shortcuts of cfg are equal ignoring case
KeysUniqueIgnoringCase(cfg) ==
    \A k1, k2 \in DOMAIN cfg.shortcuts :
        to_lowercase(k1) = to_lowercase(k2) => k1 = k2

\* C1: while case_sensitive is false, no operation turns a shortcuts map
\* whose keys are unique ignoring case into one that holds two keys equal
\* ignoring case (a colliding insert overwrites).
C1_InsertKeepsKeysUnique ==
    [][ ( /\ ~config.behavior.case_sensitive
          /\ ~config'.behavior.case_sensitive
          /\ last'.op \in {"set_shortcut", "remove_shortcut", "set_value",
                           "import", "import_merge"}
          /\ KeysUniqueIgnoringCase(config) )
        => KeysUniqueIgnoringCase(config') ]_vars

\* C2: after every successful operation that saved, the file that an
\* invocation with the same configuration-file selection loads parses to the
\* in-memory document.
C2_SelectedFileHoldsDocument ==
    (pc = "run" /\ last.wrote /\ last.err = "")
        => load_from_path(SelectedFile(disk, sel)) = Some(config)

\* C3: in jump and open a target that get_shortcut resolves yields the stored
\* path of the shortcut, also when a directory of that name exists, and the
\* filesystem is not looked at.
C3_ShortcutBeforeDirectPath ==
    ( /\ last.op \in {"jump_to", "resolve_path"}
      /\ get_shortcut(config, order, last.name) # None )
        => /\ last.err = ""
           /\ ~last.fsread
           /\ \E k \in DOMAIN config.shortcuts :
                 /\ last.out = Some(StoredPath(config.shortcuts[k]))
                 /\ IF config.behavior.case_sensitive THEN k = last.name
                    ELSE eq_ignore_ascii_case(k, last.name)

C3_Witness ==
    /\ last.op = "jump_to"
    /\ last.name = <<97, 98>>
    /\ last.name \in DOMAIN config.shortcuts
    /\ fs[last.name] = "dir"
    /\ last.out = Some(StoredPath(config.shortcuts[last.name]))

\* char::to_uppercase on the Basic Latin and Latin-1 letters that have a
\* one-character upper case in those blocks
char_to_uppercase(c) ==
    IF c \in 97..122 \/ (c \in 224..254 /\ c # 247) THEN c - 32 ELSE c

to_uppercase(s) == [i \in 1..Len(s) |-> char_to_uppercase(s[i])]

to_ascii_uppercase(c) == IF c \in 97..122 THEN c - 32 ELSE c

\* the all-lower, the all-upper and the given spelling of a name
CaseVariants(n) == { to_lowercase(n), to_uppercase(n), n }

\* the same, changing ASCII letters only
AsciiCaseVariants(n) ==
    { [i \in 1..Len(n) |-> to_ascii_lowercase(n[i])],
      [i \in 1..Len(n) |-> to_ascii_uppercase(n[i])], n }

\* C4 as claimed: with case_sensitive false, right after set_shortcut has
\* inserted an alias, get_shortcut on every case variant of the alias returns
\* a path, the same for all variants.
C4_CaseVariantsResolve ==
    ( /\ last.op = "set_shortcut" /\ last.err = ""
      /\ ~config.behavior.case_sensitive )
        => \A v \in CaseVariants(last.name) :
              /\ get_shortcut(config, order, v) # None
              /\ get_shortcut(config, order, v)
                    = get_shortcut(config, order, last.name)

\* C4 amended: with case_sensitive false, right after set_shortcut has
\* inserted an alias, get_shortcut on every variant of the alias that differs
\* from it only in the case of ASCII letters returns a path, the same for all
\* those variants.
C4_AsciiCaseVariantsResolve ==
    ( /\ last.op = "set_shortcut" /\ last.err = ""
      /\ ~config.behavior.case_sensitive )
        => \A v \in AsciiCaseVariants(last.name) :
              /\ get_shortcut(config, order, v) # None
              /\ get_shortcut(config, order, v)
                    = get_shortcut(config, order, last.name)

C4_Witness ==
    /\ last.op = "set_shortcut" /\ last.err = ""
    /\ ~config.behavior.case_sensitive
    /\ last.name = <<65, 98>>
    /\ DOMAIN config.shortcuts = { <<65, 98>> }
    /\ get_shortcut(config, order, <<97, 98>>) = Some(config.shortcuts[<<65, 98>>])
    /\ get_shortcut(config, order, <<65, 66>>) = Some(config.shortcuts[<<65, 98>>])

\* C5: with case_sensitive true, get_shortcut(name) returns a path exactly
\* when name itself is a stored key, and then the path stored under it; a
\* case variant that is not a stored key returns nothing.
C5_ExactLookup ==
    (last.op = "get_shortcut" /\ config.behavior.case_sensitive)
        => /\ last.ret # None <=> last.name \in DOMAIN config.shortcuts
           /\ last.name \in DOMAIN config.shortcuts
                 => last.ret = Some(config.shortcuts[last.name])

C5_Witness ==
    /\ last.op = "get_shortcut" /\ config.behavior.case_sensitive
    /\ last.name = <<65, 66>>
    /\ <<97, 98>> \in DOMAIN config.shortcuts
    /\ last.ret = None

\* C6: right after a successful set_shortcut(alias, path), get_shortcut(alias)
\* returns the path this call stored, under either case policy.
C6_ReadYourWrite ==
    (last.op = "set_shortcut" /\ last.err = "")
        => get_shortcut(config, order, last.name) = last.ret

InsertIfAbsent(m, o) ==
    [k \in (DOMAIN m) \cup (DOMAIN o) |-> IF k \in DOMAIN m THEN m[k] ELSE o[k]]

\* C8: merge is insert-if-absent on shortcuts and on file_managers: keys of
\* self keep self's value, keys only in other get other's value, and there
\* are no other keys.
C8_MergeInsertsIfAbsent ==
    [][ last'.op = "merge" =>
          /\ config'.shortcuts = InsertIfAbsent(config.shortcuts, other.shortcuts)
          /\ config'.file_managers =
                InsertIfAbsent(config.file_managers, other.file_managers) ]_vars

C8_Witness ==
    /\ last.op = "merge"
    /\ \E k \in DOMAIN other.shortcuts :
          /\ k \in DOMAIN config.shortcuts
          /\ config.shortcuts[k] # other.shortcuts[k]
    /\ \E k \in DOMAIN other.file_managers :
          /\ k \in DOMAIN config.file_managers
          /\ config.file_managers[k] # other.file_managers[k]
    /\ Cardinality(DOMAIN config.shortcuts) > Cardinality(DOMAIN other.shortcuts)

\* C9 as claimed: merge overwrites default_file_manager with other's value
\* exactly when that value is present and not the empty string, and leaves it
\* unchanged otherwise.
C9_MergeManagerIfNonEmpty ==
    [][ last'.op = "merge" =>
          config'.default_file_manager =
              IF other.default_file_manager \notin {None, Some("")}
              THEN other.default_file_manager
              ELSE config.default_file_manager ]_vars

\* C9 amended: merge overwrites default_file_manager with other's value
\* exactly when that value is present (Some, be it the empty string), whatever
\* self's value was, and leaves it unchanged when other's value is absent.
C9_MergeManagerIfPresent ==
    [][ last'.op = "merge" =>
          config'.default_file_manager =
              IF other.default_file_manager # None
              THEN other.default_file_manager
              ELSE config.default_file_manager ]_vars

C9_Witness ==
    /\ last.op = "merge"
    /\ other.default_file_manager = Some("")
    /\ config.default_file_manager = Some("")
    /\ Cardinality(DOMAIN config.shortcuts) = 1

\* x occurs in y as a contiguous run of characters
IsSubstring(x, y) ==
    \E i \in 1..(Len(y) + 1), j \in 0..Len(y) : SubSeq(y, i, j) = x

\* C10: fuzzy_find_shortcuts(target) returns, each once, exactly the stored
\* (alias, path) entries whose lowercased alias contains the lowercased target
\* or whose lowercased alias is contained in the lowercased target.
C10_FuzzyFindExact ==
    last.op = "fuzzy_find_shortcuts" =>
        /\ { last.matches[i] : i \in 1..Len(last.matches) } =
              { <<k, config.shortcuts[k]>> :
                  k \in { x \in DOMAIN config.shortcuts :
                            \/ IsSubstring(to_lowercase(last.name), to_lowercase(x))
                            \/ IsSubstring(to_lowercase(x), to_lowercase(last.name)) } }
        /\ \A i, j \in 1..Len(last.matches) :
              last.matches[i] = last.matches[j] => i = j

C10_Witness ==
    /\ last.op = "fuzzy_find_shortcuts"
    /\ last.name = <<97, 98, 99>>
    /\ DOMAIN config.shortcuts = { <<65, 98>>, <<201>> }
    /\ Len(last.matches) = 1
    /\ last.matches[1][1] = <<65, 98>>

\* what shellexpand::full makes of a target it can expand
Expanded(t) == CHOOSE x \in shellexpand_target(t) : TRUE

\* the resolver call that has just returned was given a target that is no
\* shortcut and that expands to a path
DirectCase(op) ==
    /\ last'.op = op
    /\ get_shortcut(config, order, last'.name) = None
    /\ shellexpand_target(last'.name) # None

\* C11: when the target of jump is no shortcut and its expansion exists, jump
\* succeeds with the expanded path if that is a directory and fails with
\* not-a-directory if it is a regular file; nothing is created and no
\* suggestions are looked up, whatever create_missing is.
C11_ExistingPathByKind ==
    [][ (DirectCase("jump_to") /\ fs[Expanded(last'.name)] # "none") =>
          LET p == Expanded(last'.name) IN
          /\ fs[p] = "dir" =>
                (last'.err = "" /\ last'.out = Some(DirectPath(p)))
          /\ fs[p] = "file" =>
                (last'.err = "NotADirectory" /\ last'.out = None)
          /\ fs' = fs
          /\ last'.matches = << >> ]_vars

C11_Witness ==
    /\ last.op = "jump_to"
    /\ last.name = <<98>>
    /\ fs[<<98>>] = "file"
    /\ config.behavior.create_missing
    /\ get_shortcut(config, order, last.name) = None
    /\ last.err = "NotADirectory"
    /\ last.out = None

\* C12: when the target of jump or open is no shortcut, its expansion does not
\* exist and create_missing is true, either the directory is created (one
\* change of the filesystem) and the expanded path is the result, or creation
\* fails, the call fails with an I/O error, there is no result and the
\* filesystem is as before.
C12_CreateMissingOnce ==
    [][ ( /\ (DirectCase("jump_to") \/ DirectCase("resolve_path"))
          /\ fs[Expanded(last'.name)] = "none"
          /\ config.behavior.create_missing ) =>
          LET p == Expanded(last'.name) IN
          \/ /\ last'.err = ""
             /\ last'.out = Some(DirectPath(p))
             /\ fs' = [fs EXCEPT ![p] = "dir"]
          \/ /\ last'.err = "IOError"
             /\ last'.out = None
             /\ fs' = fs ]_vars

C12_Witness ==
    /\ last.op = "resolve_path"
    /\ last.name = <<97, 98, 99>>
    /\ config.behavior.create_missing
    /\ get_shortcut(config, order, last.name) = None
    /\ FsInit[last.name] = "none"
    /\ fs[last.name] = "dir"
    /\ last.out = Some(DirectPath(last.name))

\* C13: when the target of jump is no shortcut, its expansion does not exist
\* and create_missing is false, jump fails with directory-not-found, has no
\* result and creates nothing, whether or not there are fuzzy candidates; at
\* most 5 candidates are shown, each of them a fuzzy match.
C13_NotFoundShowsAtMostFive ==
    [][ ( /\ DirectCase("jump_to")
          /\ fs[Expanded(last'.name)] = "none"
          /\ ~config.behavior.create_missing ) =>
          LET all == fuzzy_find_shortcuts(config, order, last'.name) IN
          /\ last'.err = "DirectoryNotFound"
          /\ last'.out = None
          /\ fs' = fs
          /\ Len(last'.matches) <= 5
          /\ \A i \in 1..Len(last'.matches) :
                \E j \in 1..Len(all) : last'.matches[i] = all[j] ]_vars

C13_Witness ==
    /\ last.op = "jump_to"
    /\ last.err = "DirectoryNotFound"
    /\ last.out = None
    /\ ~config.behavior.create_missing
    /\ Len(fuzzy_find_shortcuts(config, order, last.name)) = 6
    /\ Len(last.matches) = 5

\* C14 as claimed: jump without target and flags emits the home directory and
\* lists nothing when default_to_home is true, and lists the shortcuts and
\* emits nothing when it is false.
C14_NoTargetGoesHome ==
    last.op = "execute" =>
        IF config.behavior.default_to_home
        THEN last.out = Some(DirectPath(HomeDir)) /\ last.ret = Bool(FALSE)
        ELSE last.out = None /\ last.ret = Bool(TRUE)

\* C14 amended: jump without target and flags emits the home directory and
\* lists nothing when default_to_home is true and the home directory is
\* known; when default_to_home is false, or no home directory is known, it
\* lists the shortcuts and emits nothing.
C14_NoTargetGoesHomeIfKnown ==
    last.op = "execute" =>
        IF config.behavior.default_to_home /\ last.arg = "home"
        THEN last.out = Some(DirectPath(HomeDir)) /\ last.ret = Bool(FALSE)
        ELSE last.out = None /\ last.ret = Bool(TRUE)

C14_Witness ==
    /\ last.op = "execute"
    /\ config.behavior.default_to_home
    /\ last.arg = "nohome"
    /\ last.out = None
    /\ last.ret = Bool(TRUE)
    /\ config.shortcuts # EmptyMap

\* a resolved path begins with '/': the stored paths tried all do
IsAbsolute(p) ==
    IF p.src = "direct" THEN Len(p.name) > 0 /\ p.name[1] = 47
    ELSE p.stored \in StoredPaths

\* C15: whenever jump emits a path, the line is the sentinel NAVR_JUMP, a
\* colon and an absolute path, whichever way the target resolved.
C15_EmittedPathAbsolute ==
    (last.op \in {"jump_to", "execute"} /\ last.out # None) =>
        LET line == output_path(CHOOSE p \in last.out : TRUE) IN
        /\ line.sentinel = "NAVR_JUMP"
        /\ IsAbsolute(line.path)

C17_FirstRunHasDefaultShortcuts ==
    (last.op = "load" /\ last.arg = "default" /\ last.wrote) =>
        /\ config = create_default_config
        /\ disk.default = toml_to_string(create_default_config)

\* the per-field defaults declared with #[serde(default = "...")]
DeclaredBehavior ==
    [ confirm_overwrite |-> TRUE, create_missing |-> FALSE,
      follow_symlinks |-> TRUE, case_sensitive |-> FALSE,
      default_to_home |-> TRUE ]

DeclaredShell == [ enabled |-> TRUE, max_history |-> 1000 ]

\* key k of table t is written in file f
Written(f, t, k) == t \in DOMAIN f.doc /\ k \in DOMAIN f.doc[t]

\* C19: a TOML document with fields left out loads without error, and every
\* behavior or shell flag that the file does not write has its declared
\* default, be it that the key or its whole table is left out or that the
\* document was constructed by AppConfig::default() on the first run.
C19_OmittedFieldsTakeDeclaredDefaults ==
    last.op = "load" =>
        LET f == SelectedFile(disk, sel) IN
        /\ f.fmt = "toml" => last.err = ""
        /\ last.err = "" =>
              /\ \A k \in DOMAIN DeclaredBehavior :
                    (last.wrote \/ ~Written(f, "behavior", k))
                        => config.behavior[k] = DeclaredBehavior[k]
              /\ \A k \in DOMAIN DeclaredShell :
                    (last.wrote \/ ~Written(f, "shell", k))
                        => config.shell[k] = DeclaredShell[k]

C20_GetReturnsValueSet ==
    [][ (last'.op = "set_and_get" /\ last'.err = "") =>
          /\ last'.ret = Some(last'.value)
          /\ \A k \in ValueKeys \ {last'.arg} :
                get_value(config', k) = get_value(config, k) ]_vars

\* the number a numeral stands for, and the numeral without sign and leading
\* zeros of a number
NumberOf ==
    [ v \in {"0", "50", "+50", "050", "1000"} |->
        CASE v = "0" -> 0 [] v = "1000" -> 1000 [] OTHER -> 50 ]

Canonical(key, v) ==
    IF key # "shell.max_history" THEN v
    ELSE CASE NumberOf[v] = 0 -> "0"
           [] NumberOf[v] = 50 -> "50"
           [] NumberOf[v] = 1000 -> "1000"

\* C20 amended: after set_value(key, value) has succeeded, get_value(key)
\* returns value for default_file_manager and the boolean keys, and for
\* shell.max_history the decimal numeral, without sign or leading zeros, of
\* the number value stands for; get_value of every other key returns what it
\* returned before.
C20_GetReturnsCanonicalValue ==
    [][ (last'.op = "set_and_get" /\ last'.err = "") =>
          /\ last'.ret = Some(Canonical(last'.arg, last'.value))
          /\ \A k \in ValueKeys \ {last'.arg} :
                get_value(config', k) = get_value(config, k) ]_vars

C20_Witness ==
    /\ last.op = "set_and_get" /\ last.err = ""
    /\ last.arg = "shell.max_history"
    /\ last.value = "+50"
    /\ last.ret = Some("50")
    /\ config.shell.max_history = 50
    /\ config.behavior = BehaviorFromDoc(EmptyDoc)

\* the value strings that parse into the type of the field behind a key
ParsesFor(key, v) ==
    CASE key = "default_file_manager" -> TRUE
      [] key = "shell.max_history" -> v \in {"0", "50", "+50", "050", "1000"}
      [] OTHER -> v \in {"true", "false"}

C22_ParserByExtensionElseSniff ==
    [][ \A i \in ImportFiles, m \in BOOLEAN :
          ( /\ Import(i, m)
            /\ i.file.fmt # "none"
            /\ i.ext \notin {"yaml", "yml"} ) =>
              LET parser == CASE i.ext = "json" -> "json"
                              [] i.ext = "toml" -> "toml"
                              [] OTHER -> IF i.file.brace THEN "json" ELSE "toml"
              IN last'.err = "" <=> i.file.fmt = parser ]_vars

C23_ExitOneOnEveryError ==
    last.op # "init" =>
        exit_status(last) = IF last.err = ""
                            THEN [code |-> 0, stderr |-> << >>]
                            ELSE [code |-> 1, stderr |-> << "Error:" >>]

\* C23 amended: an invocation exits with status 0 and nothing on standard
\* error when its command succeeded, with status 1 and one line prefixed
\* "Error:" when run returned an error, and with status 2 and the message of
\* the command-line parser when the command line was not accepted.
C23_ExitOneOnRunError ==
    last.op # "init" =>
        exit_status(last) =
            CASE last.err = "" -> [code |-> 0, stderr |-> << >>]
              [] last.err = "UsageError" -> [code |-> 2, stderr |-> << "error:" >>]
              [] OTHER -> [code |-> 1, stderr |-> << "Error:" >>]

C23_Witness ==
    /\ last.op = "set_shortcut"
    /\ last.err = "ExpansionFailed"
    /\ exit_status(last) = [code |-> 1, stderr |-> << "Error:" >>]
    /\ config.shortcuts # EmptyMap

\* what the paths given to set_shortcut denote: whether the expansion is
\* defined, and the path to be stored (the resolved directory where one
\* exists, the expanded text where nothing is there)
ExpansionDefined(p) == p # "$U/w"

PathToStore(p) ==
    CASE p = "/w"  -> "/w"
      [] p = "/l"  -> "/w"
      [] p = "~/w" -> "/w"
      [] OTHER     -> p

C28_RemovalAgreesWithLookup ==
    [][ \A n \in RemoveNames :
          RemoveShortcut(n) =>
              /\ last'.ret = Bool(get_shortcut(config, order, n) # None)
              /\ last'.ret = Bool(TRUE) => get_shortcut(config', order', n) = None ]_vars

\* C29: open resolves a target exactly as jump does: for every configuration,
\* filesystem state and target, resolve_path succeeds with path P if and
\* only if jump_to emits P, and it fails whenever jump_to fails, in
\* particular for a target that expands to an existing regular file.
C29_OpenResolvesAsJump ==
    [][ \A t \in ResolveTargets, mk \in BOOLEAN :
          ResolvePath(t, mk) =>
              LET j == jump_to(config, order, fs, t, mk)
              IN /\ last'.out = j.out
                 /\ last'.err = "" <=> j.err = "" ]_vars

\* the answers that are a y or a Y, alone on the line
AnswersYes == { <<121, 10>>, <<89, 10>>, <<32, 121, 32, 10>>, <<121>> }

\* C27: with confirm_overwrite = true, jump --add NAME changes the path of no
\* shortcut other than NAME, changes the path of an existing shortcut NAME
\* and writes the file in that case only when the prompt is answered y or Y,
\* and a declined prompt ends the command successfully with the document and
\* the file unchanged.
C27_NoOverwriteUnlessConfirmed ==
    [][ \A n \in StoreNames, d \in CurrentDirs, a \in Answers :
          (AddShortcut(n, d, a) /\ config.behavior.confirm_overwrite) =>
              /\ \A k \in DOMAIN config.shortcuts :
                    /\ k \in DOMAIN config'.shortcuts
                    /\ config'.shortcuts[k] # config.shortcuts[k] =>
                          (k = n /\ a \in AnswersYes)
              /\ (n \in DOMAIN config.shortcuts /\ a \notin AnswersYes) =>
                    /\ config' = config
                    /\ disk' = disk
                    /\ ~last'.wrote
                    /\ d # None => last'.err = ""
              /\ (n \in DOMAIN config.shortcuts /\ a \in AnswersYes /\ d # None) =>
                    /\ config'.shortcuts[n] = "/w"
                    /\ disk'.default = toml_to_string(config') ]_vars

C27_Witness ==
    /\ last.op = "add_shortcut"
    /\ last.arg = "declined"
    /\ last.err = ""
    /\ config.behavior.confirm_overwrite
    /\ MapGet(config.shortcuts, last.name) = Some("/n")
    /\ disk.default = toml_to_string(config)

\* the directory `cd "$(navr jump TARGET)"` ends in: the path jump emits, in
\* the filesystem jump leaves behind, nothing when jump fails
JumpEndsIn(t, mk_ok) ==
    LET r == jump_to(config, order, fs, t, mk_ok) IN
    IF r.out = None THEN None ELSE builtin_cd(r.fs, CHOOSE p \in r.out : TRUE)

\* C30: for every configuration, working directory and target, navr-shell cd
\* TARGET and the generated cd wrapper end in the directory that navr jump
\* TARGET resolves to, with the same shortcut-before-directory precedence and
\* the same case-sensitivity policy.
C30_ShellAgreesWithJump ==
    [][ /\ \A h \in HomeDirs, t \in LookupNames :
              HandleCd(h, <<t>>) => last'.out = JumpEndsIn(t, TRUE)
        /\ \A t \in LookupNames, ok \in BOOLEAN :
              CdWrapper(t, ok) => last'.out = JumpEndsIn(t, ok) ]_vars

\* C24: when two invocations each load the file, change their own document
\* and save, then under every interleaving the final content of the file is
\* the complete document of the invocation that saved last, never a mixture
\* of the two.
C24_LastWriterWins ==
    ( /\ \A i \in Invocations : procs[i].pc \in {"done", "failed"}
      /\ WriteCount(procs) > 0 ) =>
        \E i \in Invocations :
            /\ procs[i].nth = WriteCount(procs)
            /\ disk.default = toml_to_string(procs[i].doc)

====
